---- MODULE Spec2Model ----
(***************************************************************************)
(* Model of markov_melody_generation.py: the N-order Markov chain          *)
(* (MarkovChain.train / MarkovChain.generate), the note pairing of         *)
(* extract_notes and the serialisation of save_melody.                     *)
(*                                                                         *)
(* Spec      : a MarkovChain object under any sequence of train and        *)
(*             generate calls (generate is followed iteration by           *)
(*             iteration; the program is single-threaded, so no other call *)
(*             starts while one is running).                               *)
(* SpecNotes : extract_notes applied to bounded MIDI files, followed by    *)
(*             save_melody applied to its output.                          *)
(***************************************************************************)
EXTENDS Integers, Sequences, FiniteSets, Bags, TLC

VARIABLES
    order,          \* self.order
    model,          \* self.model: context tuple -> Counter (successor -> count)
    trained,        \* history: bag of the sequences passed to successful train calls
    call,           \* the call being run or last run: <<"train", sequence>> or <<"generate", length>>
    raised,         \* the exception the last call raised, or NoError
    pc,             \* "idle" between calls, "loop" inside generate's for loop
    states,         \* generate: list(self.model.keys())
    current_state,  \* generate: current_state
    result,         \* generate: result
    iters,          \* generate: iterations of the for loop completed
    returned,       \* value the last call returned, when it was a generate that returned
    tracks,         \* extract_notes: mid.tracks as read from the file
    default_off_time, \* extract_notes: default_off_time
    pairs,          \* value returned by extract_notes
    track_out,      \* save_melody: the track written to the output file
    stage           \* SpecNotes: "read", "extracted", "saved" or "IndexError"

chainVars == <<order, model, trained, call, raised, pc, states, current_state,
               result, iters, returned>>
noteVars == <<tracks, default_off_time, pairs, track_out, stage>>
vars == <<order, model, trained, call, raised, pc, states, current_state,
          result, iters, returned, tracks, default_off_time, pairs,
          track_out, stage>>

(***************************************************************************)
(* Bounds of the model.                                                    *)
(***************************************************************************)
MaxOrder == 2       \* orders 1..MaxOrder
MaxSeqLen == 3      \* longest sequence passed to train
MaxTrainedNotes == 6 \* notes passed to successful train calls, all calls together
MaxGenLen == 4      \* longest length passed to generate
MaxEvents == 3      \* messages in a MIDI file

(***************************************************************************)
(* Note tuples: ((on_pitch, on_velocity, on_time),                         *)
(*               (off_pitch, off_velocity, off_time)).                     *)
(***************************************************************************)
PairA == <<<<60, 100, 0>>, <<60, 0, 10>>>>
PairB == <<<<64, 90, 5>>, <<64, 0, 15>>>>
NotePairs == {PairA, PairB}

SeqsUpTo(S, n) == UNION {[1..k -> S] : k \in 0..n}

\* The three ValueError raise sites, told apart by their message.
NoError == "no error"
InsufficientDataError == "ValueError: Cannot train MarkovChain on sequence"
EmptyModelError == "ValueError: The Markov model is empty. Train it first."
InsufficientLengthError == "ValueError: Cannot generate notes with order"

\* Python slices on a 1-indexed sequence: seq[i:j] and seq[-n:]
Slice(seq, i, j) ==
    LET lo == IF i < 0 THEN 0 ELSE IF i > Len(seq) THEN Len(seq) ELSE i
        hi == IF j < 0 THEN 0 ELSE IF j > Len(seq) THEN Len(seq) ELSE j
    IN  IF hi <= lo THEN << >> ELSE SubSeq(seq, lo + 1, hi)

LastN(seq, n) ==
    IF n = 0 THEN seq
    ELSE Slice(seq, (IF Len(seq) - n < 0 THEN 0 ELSE Len(seq) - n), Len(seq))

\* Counter(): no entries
EmptyCounter == [n \in {} |-> 0]

\* defaultdict(Counter): no keys
EmptyModel == [k \in {} |-> EmptyCounter]

\* Counter.__getitem__: a missing element counts 0 and is not stored
CounterGet(c, n) == IF n \in DOMAIN c THEN c[n] ELSE 0

\* Plausible bug: the successor is recorded, not counted
IncCountOnce(m, ctx, nxt) ==
    LET c == IF ctx \in DOMAIN m THEN m[ctx] ELSE EmptyCounter
        c2 == [n \in DOMAIN c \cup {nxt} |-> IF n = nxt THEN 1 ELSE c[n]]
    IN  [k \in DOMAIN m \cup {ctx} |-> IF k = ctx THEN c2 ELSE m[k]]

\* self.model[current_state][next_state] += 1
IncCount(m, ctx, nxt) ==
    LET c == IF ctx \in DOMAIN m THEN m[ctx] ELSE EmptyCounter
        c2 == [n \in DOMAIN c \cup {nxt} |->
                  IF n = nxt THEN CounterGet(c, nxt) + 1 ELSE c[n]]
    IN  [k \in DOMAIN m \cup {ctx} |-> IF k = ctx THEN c2 ELSE m[k]]

\* for i in range(sequence_length - self.order): ... from index i on
RECURSIVE CountWindows(_, _, _, _)
CountWindows(m, sequence, ord, i) ==
    IF i >= Len(sequence) - ord THEN m
    ELSE CountWindows(IncCount(m, Slice(sequence, i, i + ord), sequence[i + ord + 1]),
                      sequence, ord, i + 1)

\* Plausible bug: the tail is assigned, overwriting the counts of a known context
SetDefaultOverwrite(m, k, v) ==
    [x \in DOMAIN m \cup {k} |-> IF x = k THEN v ELSE m[x]]

\* dict.setdefault(k, v): inserts only when k is missing
SetDefault(m, k, v) ==
    IF k \in DOMAIN m THEN m
    ELSE [x \in DOMAIN m \cup {k} |-> IF x = k THEN v ELSE m[x]]

\* Plausible bug: off-by-one slice for the tail
TailShort(sequence, ord) == LastN(sequence, ord - 1)

\* tail = tuple(sequence[-self.order:])
TailOf(sequence, ord) == LastN(sequence, ord)

\* Plausible bug: the guard rejects only sequences shorter than order
TrainRejectsShorter(sequence, ord) == Len(sequence) < ord

\* if len(sequence) <= self.order: raise ValueError
TrainRejects(sequence, ord) == Len(sequence) <= ord

\* notes in the sequences of the history, each counted once per call
TrainedNotes(history) ==
    Cardinality({w \in BagToSet(history) \X (1..MaxTrainedNotes) \X (1..MaxSeqLen) :
                    w[2] <= CopiesIn(w[1], history) /\ w[3] <= Len(w[1])})

\* The table after train's body ran on sequence
Trained(m, sequence, ord) ==
    SetDefault(CountWindows(m, sequence, ord, 0), TailOf(sequence, ord), EmptyCounter)

(***************************************************************************)
(* MarkovChain.train                                                       *)
(***************************************************************************)
TrainRaise(sequence) ==
    /\ pc = "idle"
    /\ TrainRejects(sequence, order)
    /\ call' = <<"train", sequence>>
    /\ raised' = InsufficientDataError
    /\ returned' = << >>
    /\ UNCHANGED <<order, model, trained, pc, states, current_state, result,
                   iters>>
    /\ UNCHANGED noteVars

TrainOk(sequence) ==
    /\ pc = "idle"
    /\ ~TrainRejects(sequence, order)
    /\ TrainedNotes(trained) + Len(sequence) <= MaxTrainedNotes
    /\ model' = Trained(model, sequence, order)
    /\ trained' = trained (+) SetToBag({sequence})
    /\ call' = <<"train", sequence>>
    /\ raised' = NoError
    /\ returned' = << >>
    /\ UNCHANGED <<order, pc, states, current_state, result, iters>>
    /\ UNCHANGED noteVars

Train == \E sequence \in SeqsUpTo(NotePairs, MaxSeqLen) :
            TrainRaise(sequence) \/ TrainOk(sequence)

(***************************************************************************)
(* MarkovChain.generate                                                    *)
(***************************************************************************)
\* Plausible bug: the lookup goes through defaultdict.__getitem__, which
\* stores an empty Counter under a missing key
ModelAfterGetitem(m, k) == SetDefault(m, k, EmptyCounter)

\* self.model.get(current_state) leaves the table as it is
ModelAfterGet(m, k) == m

\* self.model.get(current_state): the Counter, or None for a missing key
Get(m, k) ==
    IF k \in DOMAIN m THEN [isNone |-> FALSE, counter |-> m[k]]
    ELSE [isNone |-> TRUE, counter |-> EmptyCounter]

\* if next_notes: None and the empty Counter are false
Truthy(next_notes) == ~next_notes.isNone /\ DOMAIN next_notes.counter # {}

\* random.choices(choices, weights=probabilities, k=1)[0]: any choice whose
\* weight c / total is positive
WeightedChoices(next_notes) ==
    {n \in DOMAIN next_notes.counter : next_notes.counter[n] > 0}

\* Plausible bug: generate accepts length == order
GenerateRejectsShorter(length, ord) == length < ord

\* if length <= self.order: raise ValueError
GenerateRejects(length, ord) == length <= ord

\* Plausible bug: one iteration too many
LoopCountPlusOne(length, ord) == length - ord + 1

\* range(length - self.order)
LoopCount(length, ord) == length - ord

\* Plausible bug: the seed is the chosen state reversed
Reversed(state) == [i \in 1..Len(state) |-> state[Len(state) + 1 - i]]

\* result = list(current_state)
Seed(state) == state

GenerateRaiseEmpty(length) ==
    /\ pc = "idle"
    /\ DOMAIN model = {}
    /\ call' = <<"generate", length>>
    /\ raised' = EmptyModelError
    /\ returned' = << >>
    /\ UNCHANGED <<order, model, trained, pc, states, current_state, result,
                   iters>>
    /\ UNCHANGED noteVars

GenerateRaiseLength(length) ==
    /\ pc = "idle"
    /\ DOMAIN model # {}
    /\ GenerateRejects(length, order)
    /\ call' = <<"generate", length>>
    /\ raised' = InsufficientLengthError
    /\ returned' = << >>
    /\ UNCHANGED <<order, model, trained, pc, states, current_state, result,
                   iters>>
    /\ UNCHANGED noteVars

\* lines 68-72: the keys are listed and the initial state is picked
GenerateStart(length) ==
    /\ pc = "idle"
    /\ DOMAIN model # {}
    /\ ~GenerateRejects(length, order)
    /\ call' = <<"generate", length>>
    /\ raised' = NoError
    /\ states' = DOMAIN model
    /\ \E state \in DOMAIN model :
          /\ current_state' = state
          /\ result' = Seed(state)
    /\ iters' = 0
    /\ pc' = "loop"
    /\ returned' = << >>
    /\ UNCHANGED <<order, model, trained>>
    /\ UNCHANGED noteVars

\* one iteration of the for loop, successor branch
GenerateSuccessor ==
    /\ pc = "loop"
    /\ iters < LoopCount(call[2], order)
    /\ LET next_notes == Get(model, current_state) IN
          /\ Truthy(next_notes)
          /\ \E next_note \in WeightedChoices(next_notes) :
                /\ result' = Append(result, next_note)
                /\ current_state' = LastN(Append(result, next_note), order)
    /\ model' = ModelAfterGet(model, current_state)
    /\ iters' = iters + 1
    /\ UNCHANGED <<order, trained, call, raised, pc, states, returned>>
    /\ UNCHANGED noteVars

\* one iteration of the for loop, dead-end branch
GenerateDeadEnd ==
    /\ pc = "loop"
    /\ iters < LoopCount(call[2], order)
    /\ ~Truthy(Get(model, current_state))
    /\ \E state \in states : \E k \in 1..Len(state) :
          /\ result' = Append(result, state[k])
          /\ current_state' = LastN(Append(result, state[k]), order)
    /\ model' = ModelAfterGet(model, current_state)
    /\ iters' = iters + 1
    /\ UNCHANGED <<order, trained, call, raised, pc, states, returned>>
    /\ UNCHANGED noteVars

\* the loop is exhausted: return result (the locals go out of scope)
GenerateReturn ==
    /\ pc = "loop"
    /\ ~(iters < LoopCount(call[2], order))
    /\ returned' = result
    /\ pc' = "idle"
    /\ states' = {}
    /\ current_state' = << >>
    /\ result' = << >>
    /\ UNCHANGED <<order, model, trained, call, raised, iters>>
    /\ UNCHANGED noteVars

Generate == \E length \in 0..MaxGenLen :
               \/ GenerateRaiseEmpty(length)
               \/ GenerateRaiseLength(length)
               \/ GenerateStart(length)

(***************************************************************************)
(* MIDI messages as mido reads them. A note message has a note, a velocity *)
(* and a delta time; a set_tempo meta message has no note and no velocity. *)
(***************************************************************************)
Pitches == {60, 64}
Velocities == {0, 100}
Times == {0, 10}
NoteMessages == [type : {"note_on", "note_off"}, note : Pitches,
                 velocity : Velocities, time : Times]
TempoMessages == {[type |-> "set_tempo", tempo |-> 400000, time |-> 10]}
Messages == NoteMessages \cup TempoMessages

\* The files read: one track, or the same messages split over two tracks,
\* or no track at all
TrackLists(t) ==
    {<< >>, <<t>>} \cup {<<SubSeq(t, 1, k), SubSeq(t, k + 1, Len(t))>> : k \in 0..Len(t)}

\* bpm2tempo(120)
DefaultTempo == 500000

\* the fallback time main() leaves at its default
DefaultOffTime == 480

\* (msg.note, msg.velocity, msg.time)
Fields(msg) == <<msg.note, msg.velocity, msg.time>>

\* Plausible bug: the look-ahead does not compare the pitch
MatchesOffAnyPitch(msg2, msg) ==
    msg2.type = "note_off" \/ (msg2.type = "note_on" /\ msg2.velocity = 0)

\* (msg2.type == "note_off" or (msg2.type == "note_on" and msg2.velocity == 0))
\*     and msg2.note == msg.note
MatchesOff(msg2, msg) ==
    /\ msg2.type = "note_off" \/ (msg2.type = "note_on" /\ msg2.velocity = 0)
    /\ msg2.note = msg.note

\* for msg2 in track[i + 1:]: the first match from position j on, << >> for None
RECURSIVE LookAhead(_, _, _)
LookAhead(track, msg, j) ==
    IF j > Len(track) THEN << >>
    ELSE IF MatchesOff(track[j], msg) THEN Fields(track[j])
    ELSE LookAhead(track, msg, j + 1)

\* the pair appended for the note_on at position i of track
PairAt(track, i, dflt) ==
    LET off == LookAhead(track, track[i], i + 1)
    IN  <<Fields(track[i]), IF off = << >> THEN <<track[i].note, 0, dflt>> ELSE off>>

\* for i, msg in enumerate(track): the pairs appended from position i on
RECURSIVE TrackPairs(_, _, _)
TrackPairs(track, i, dflt) ==
    IF i > Len(track) THEN << >>
    ELSE IF track[i].type = "note_on" /\ track[i].velocity > 0
         THEN <<PairAt(track, i, dflt)>> \o TrackPairs(track, i + 1, dflt)
         ELSE TrackPairs(track, i + 1, dflt)

\* for track in mid.tracks: the pairs appended from track number n on
RECURSIVE ExtractFrom(_, _, _)
ExtractFrom(trks, n, dflt) ==
    IF n > Len(trks) THEN << >>
    ELSE TrackPairs(trks[n], 1, dflt) \o ExtractFrom(trks, n + 1, dflt)

\* for msg in original_midi.tracks[0]: the tempo message put first in the
\* output track, looking from position j on
RECURSIVE TempoMessage(_, _)
TempoMessage(track0, j) ==
    IF j > Len(track0)
    THEN [type |-> "set_tempo", tempo |-> DefaultTempo, time |-> 0]
    ELSE IF track0[j].type = "set_tempo" THEN [track0[j] EXCEPT !.time = 0]
    ELSE TempoMessage(track0, j + 1)

\* for (note, vel_on, delta_on), (_, vel_off, delta_off) in pairs: from pair n on
RECURSIVE Replay(_, _)
Replay(prs, n) ==
    IF n > Len(prs) THEN << >>
    ELSE <<[type |-> "note_on", note |-> prs[n][1][1], velocity |-> prs[n][1][2],
            time |-> prs[n][1][3]],
           [type |-> "note_off", note |-> prs[n][1][1], velocity |-> prs[n][2][2],
            time |-> prs[n][2][3]]>> \o Replay(prs, n + 1)

(***************************************************************************)
(* extract_notes and save_melody                                           *)
(***************************************************************************)
ExtractNotes ==
    /\ stage = "read"
    /\ pairs' = ExtractFrom(tracks, 1, default_off_time)
    /\ stage' = "extracted"
    /\ UNCHANGED <<tracks, default_off_time, track_out>>
    /\ UNCHANGED chainVars

\* original_midi.tracks[0] of a file without tracks
SaveMelodyRaise ==
    /\ stage = "extracted"
    /\ Len(tracks) = 0
    /\ stage' = "IndexError"
    /\ UNCHANGED <<tracks, default_off_time, pairs, track_out>>
    /\ UNCHANGED chainVars

SaveMelody ==
    /\ stage = "extracted"
    /\ Len(tracks) > 0
    /\ track_out' = <<TempoMessage(tracks[1], 1)>> \o Replay(pairs, 1)
    /\ stage' = "saved"
    /\ UNCHANGED <<tracks, default_off_time, pairs>>
    /\ UNCHANGED chainVars

InitNotes ==
    /\ \E n \in 0..MaxEvents : \E t \in [1..n -> Messages] : tracks \in TrackLists(t)
    /\ default_off_time = DefaultOffTime
    /\ pairs = << >>
    /\ track_out = << >>
    /\ stage = "read"
    /\ order = 1
    /\ model = EmptyModel
    /\ trained = EmptyBag
    /\ call = <<"init", 0>>
    /\ raised = NoError
    /\ pc = "idle"
    /\ states = {}
    /\ current_state = << >>
    /\ result = << >>
    /\ iters = 0
    /\ returned = << >>

NextNotes ==
    \/ ExtractNotes
    \/ SaveMelody
    \/ SaveMelodyRaise

SpecNotes == InitNotes /\ [][NextNotes]_vars

Init ==
    /\ order \in 1..MaxOrder
    /\ model = EmptyModel
    /\ trained = EmptyBag
    /\ call = <<"init", 0>>
    /\ raised = NoError
    /\ pc = "idle"
    /\ states = {}
    /\ current_state = << >>
    /\ result = << >>
    /\ iters = 0
    /\ returned = << >>
    /\ tracks = << >>
    /\ default_off_time = DefaultOffTime
    /\ pairs = << >>
    /\ track_out = << >>
    /\ stage = "unused"

Next ==
    \/ Train
    \/ Generate
    \/ GenerateSuccessor
    \/ GenerateDeadEnd
    \/ GenerateReturn

Spec == Init /\ [][Next]_vars

(***************************************************************************)
(* Definitions shared by the properties. They restate what the table must  *)
(* hold from the history of successful train calls, without using the      *)
(* operators that model train.                                             *)
(***************************************************************************)
Contexts == [1..order -> NotePairs]

\* the count the table stores for (ctx, nxt); 0 when nothing is stored
StoredCount(m, ctx, nxt) ==
    IF ctx \in DOMAIN m /\ nxt \in DOMAIN m[ctx] THEN m[ctx][nxt] ELSE 0

\* s[i:i+order] = ctx and s[i+order] = nxt, for a window start i (0-based)
IsWindow(s, i, ctx, nxt) ==
    /\ i + order < Len(s)
    /\ SubSeq(s, i + 1, i + order) = ctx
    /\ s[i + order + 1] = nxt

\* window starts over all trained sequences, each counted once per call
WindowStarts(ctx, nxt) ==
    Cardinality({w \in BagToSet(trained) \X (1..MaxTrainedNotes) \X (0..MaxSeqLen) :
                    /\ w[2] <= CopiesIn(w[1], trained)
                    /\ IsWindow(w[1], w[3], ctx, nxt)})

\* the final order-length suffix of s
Suffix(s) == SubSeq(s, Len(s) - order + 1, Len(s))

GenerateReturned == pc = "idle" /\ call[1] = "generate" /\ raised = NoError

\* a step that is a call of generate, and one that is a call of train
GenerateCallStep == pc = "idle" /\ call'[1] = "generate"
TrainCallStep == pc = "idle" /\ call'[1] = "train"

\* C1: after any successful train calls, the count stored for (context,
\* successor) is the number of window starts over all trained sequences;
\* training twice on the same sequence doubles the counts of training once.
C1_CountsAreWindowStarts ==
    /\ \A ctx \in Contexts : \A nxt \in NotePairs :
          StoredCount(model, ctx, nxt) = WindowStarts(ctx, nxt)
    /\ \A s \in BagToSet(trained) :
          trained = SetToBag({s}) (+) SetToBag({s}) =>
             \A ctx \in Contexts : \A nxt \in NotePairs :
                StoredCount(model, ctx, nxt)
                   = 2 * Cardinality({i \in 0..MaxSeqLen : IsWindow(s, i, ctx, nxt)})

\* two calls have trained, one sequence twice, and a count of 2 or more is stored
C1_Witness ==
    /\ \E s \in BagToSet(trained) : CopiesIn(s, trained) = 2
    /\ \E ctx \in Contexts : \E nxt \in NotePairs : StoredCount(model, ctx, nxt) >= 2

\* C2: generate(length) on a non-empty table with length > order runs exactly
\* length - order iterations, cannot get stuck in the loop, and returns
\* exactly length note pairs.
C2_GenerateLength ==
    /\ pc = "loop" =>
          /\ Len(result) = order + iters
          /\ iters <= call[2] - order
          /\ ENABLED (GenerateSuccessor \/ GenerateDeadEnd \/ GenerateReturn)
    /\ GenerateReturned =>
          /\ iters = call[2] - order
          /\ Len(returned) = call[2]
          /\ \A i \in 1..Len(returned) : returned[i] \in NotePairs

\* a generate call returned after an iteration that hit a dead end
C2_Witness ==
    /\ GenerateReturned
    /\ Len(returned) = MaxGenLen
    /\ \E j \in order + 1..Len(returned) :
          ~Truthy(Get(model, SubSeq(returned, j - order, j - 1)))

\* C3: train on a sequence with len(sequence) <= order raises the
\* insufficient-data error and leaves the table as it was.
C3_TrainRejectLeavesTable ==
    [][(TrainCallStep /\ Len(call'[2]) <= order) =>
          /\ raised' = InsufficientDataError
          /\ model' = model
          /\ trained' = trained]_vars

\* a trained model has rejected a short sequence
C3_Witness ==
    /\ call[1] = "train"
    /\ Len(call[2]) <= order
    /\ raised = InsufficientDataError
    /\ DOMAIN model # {}

\* C4 as stated: generate raises the empty-model error when the table is
\* empty (exactly when no train call succeeded) and the insufficient-length
\* error when length <= order, returning nothing and leaving the table alone.
C4_Original ==
    [][GenerateCallStep =>
          /\ (DOMAIN model = {}) <=> (trained = EmptyBag)
          /\ DOMAIN model = {} =>
                raised' = EmptyModelError /\ returned' = << >> /\ pc' = "idle"
          /\ call'[2] <= order =>
                raised' = InsufficientLengthError /\ returned' = << >> /\ pc' = "idle"
          /\ (DOMAIN model = {} \/ call'[2] <= order) => model' = model]_vars

\* C4 amended: the insufficient-length error is raised when length <= order
\* and the table is not empty; an empty table raises the empty-model error
\* whatever the length.
C4_GenerateErrors ==
    [][GenerateCallStep =>
          /\ (DOMAIN model = {}) <=> (trained = EmptyBag)
          /\ DOMAIN model = {} =>
                raised' = EmptyModelError /\ returned' = << >> /\ pc' = "idle"
          /\ (DOMAIN model # {} /\ call'[2] <= order) =>
                raised' = InsufficientLengthError /\ returned' = << >> /\ pc' = "idle"
          /\ (DOMAIN model = {} \/ call'[2] <= order) => model' = model]_vars

\* a trained model has rejected a length, the length being the order itself
C4_Witness ==
    /\ call = <<"generate", order>>
    /\ raised = InsufficientLengthError
    /\ trained # EmptyBag

\* C5: no step of a generate call, failing or not, changes the table.
C5_GenerateLeavesTable ==
    [][(pc = "loop" \/ GenerateCallStep) => model' = model]_vars

\* a generate call returned after looking up a context that is no key
C5_Witness ==
    /\ GenerateReturned
    /\ \E j \in order + 1..Len(returned) :
          SubSeq(returned, j - order, j - 1) \notin DOMAIN model

\* C6: the final order-length suffix of every trained sequence is a key, and
\* its successors are exactly those the window counting gave it.
C6_TailRegistered ==
    \A s \in BagToSet(trained) :
       /\ Suffix(s) \in DOMAIN model
       /\ \A nxt \in NotePairs :
             /\ nxt \in DOMAIN model[Suffix(s)] <=> WindowStarts(Suffix(s), nxt) > 0
             /\ StoredCount(model, Suffix(s), nxt) = WindowStarts(Suffix(s), nxt)

\* one trained suffix has no successor, another was a key with successors
C6_Witness ==
    /\ \E s \in BagToSet(trained) : DOMAIN model[Suffix(s)] = {}
    /\ \E s \in BagToSet(trained) : DOMAIN model[Suffix(s)] # {}

\* C9: a returned sequence starts with the elements of a key; each later
\* element is a positive-count successor of the preceding context when that
\* context has successors, and otherwise an element of some key.
C9_GeneratedIsWalk ==
    GenerateReturned =>
       /\ SubSeq(returned, 1, order) \in DOMAIN model
       /\ \A j \in order + 1..Len(returned) :
             LET ctx == SubSeq(returned, j - order, j - 1) IN
                IF ctx \in DOMAIN model /\ DOMAIN model[ctx] # {}
                THEN returned[j] \in DOMAIN model[ctx] /\ model[ctx][returned[j]] > 0
                ELSE \E k \in DOMAIN model : \E i \in 1..order : returned[j] = k[i]

\* a returned sequence with a successor step and a dead-end step
C9_Witness ==
    /\ GenerateReturned
    /\ \E j \in order + 1..Len(returned) :
          Truthy(Get(model, SubSeq(returned, j - order, j - 1)))
    /\ \E j \in order + 1..Len(returned) :
          ~Truthy(Get(model, SubSeq(returned, j - order, j - 1)))

\* C10: every key is a tuple of order note pairs, every stored count is a
\* positive integer, and a key without successors is the suffix of a trained
\* sequence.
C10_TableInvariant ==
    \A k \in DOMAIN model :
       /\ k \in Contexts
       /\ \A n \in DOMAIN model[k] : n \in NotePairs /\ model[k][n] \in Nat \ {0}
       /\ DOMAIN model[k] = {} => \E s \in BagToSet(trained) : k = Suffix(s)

\* a generate call returned from a table holding a key with successors and a
\* dead-end key built by two or more train calls
C10_Witness ==
    /\ GenerateReturned
    /\ \E k \in DOMAIN model : DOMAIN model[k] = {}
    /\ \E k \in DOMAIN model : DOMAIN model[k] # {}
    /\ BagCardinality(trained) >= 2

(***************************************************************************)
(* Properties of extract_notes and save_melody, stated on the messages of  *)
(* the tracks without the operators that model the two functions.          *)
(***************************************************************************)
IsBegin(msg) == msg.type = "note_on" /\ msg.velocity > 0

IsEnd(msg) == msg.type = "note_off" \/ (msg.type = "note_on" /\ msg.velocity = 0)

\* positions of the begin events of a track
BeginsOf(track) == {i \in 1..Len(track) : IsBegin(track[i])}

\* positions after i of the end events with the pitch of the event at i
EndsAfter(track, i) ==
    {j \in i + 1..Len(track) : IsEnd(track[j]) /\ track[j].note = track[i].note}

Least(S) == CHOOSE x \in S : \A y \in S : x <= y

\* the begin events up to position i of track n, tracks taken in file order
BeginsUpTo(n, i) ==
    {p \in (1..Len(tracks)) \X (1..MaxEvents) :
        /\ p[1] < n \/ (p[1] = n /\ p[2] <= i)
        /\ p[2] \in BeginsOf(tracks[p[1]])}

\* C7: extract_notes returns one pair per begin event, in order; the end of
\* each pair is the first later end event of the same pitch in the track (left
\* in place for other begins), or (pitch, 0, default_off_time) when there is
\* none; both members of a pair have the same pitch; no event gives no pair.
C7_PairsAreFirstMatches ==
    stage # "read" =>
       /\ Len(pairs) = Cardinality(BeginsUpTo(Len(tracks), MaxEvents))
       /\ \A n \in 1..Len(tracks) : \A i \in BeginsOf(tracks[n]) :
             LET msg == tracks[n][i]
                 ends == EndsAfter(tracks[n], i)
                 pair == pairs[Cardinality(BeginsUpTo(n, i))]
             IN  /\ pair[1] = <<msg.note, msg.velocity, msg.time>>
                 /\ pair[2] = IF ends = {}
                              THEN <<msg.note, 0, default_off_time>>
                              ELSE LET off == tracks[n][Least(ends)]
                                   IN  <<off.note, off.velocity, off.time>>
                 /\ pair[1][1] = pair[2][1]
       /\ (\A n \in 1..Len(tracks) : tracks[n] = << >>) => pairs = << >>

\* two begins of a track were closed by the same end event, which the first
\* match left in place
C7_Witness ==
    /\ stage = "extracted"
    /\ Len(pairs) = 2
    /\ \E n \in 1..Len(tracks) : \E i, j \in BeginsOf(tracks[n]) :
          /\ i < j
          /\ EndsAfter(tracks[n], i) # {}
          /\ EndsAfter(tracks[n], j) # {}
          /\ Least(EndsAfter(tracks[n], i)) = Least(EndsAfter(tracks[n], j))

\* a stream of begin events each followed at once by an end event of its pitch
Matched(track) ==
    /\ Len(track) % 2 = 0
    /\ \A k \in 1..(Len(track) \div 2) :
          /\ IsBegin(track[2 * k - 1])
          /\ IsEnd(track[2 * k])
          /\ track[2 * k].note = track[2 * k - 1].note

\* C8: for a matched stream, save_melody applied to the output of
\* extract_notes writes, after the tempo message, the original messages:
\* same type, pitch, velocity and delta time, in the same order.
C8_RoundTrip ==
    (stage = "saved" /\ Len(tracks) = 1 /\ Matched(tracks[1])) =>
       /\ track_out[1].type = "set_tempo"
       /\ Tail(track_out) = tracks[1]

====
